---- MODULE Spec2Model ----
(***************************************************************************)
(* Model of photobuchauswahltool (src/photobuchauswahltool/__main__.py):   *)
(* the directory operations (is_file_in_directory, copy_file_to_directory, *)
(* delete_file_in_directory), the pager CurrentImagesProvider and the      *)
(* event handlers of PhotoSelectionGUI.                                    *)
(*                                                                         *)
(* A directory path is a string.  A file path is a record [dir, name]:     *)
(* pathlib's `directory / file.name`.  File names are numbered 1..MaxNames *)
(* and their lexicographic order is the order of the numbers.              *)
(***************************************************************************)
EXTENDS Integers, Sequences, FiniteSets, TLC

\* ------------------------------------------------------------ bounds ----
MaxNames == 3
MaxDirNames == 2
MaxSkim == 4
MaxCount == 4
MaxDests == 2

\* -------------------------------------------------------- filesystem ----
\* Paths that are existing directories, and one path that is not.
Directories == {"S", "D1"}
Paths == Directories \cup {"X"}
Names == 1..MaxNames
\* What a regular file holds: imghdr recognises "jpg", it does not
\* recognise "txt".
Contents == {"jpg", "txt"}
\* What a directory entry is: nothing, a sub-directory, or a regular file
\* (named by its content).
Kinds == {"absent", "dir"} \cup Contents
\* The names the directory operations and the GUI sessions are tried with.
DirNames == 1..MaxDirNames
FileSystems == [Directories \X Names -> Kinds]

VARIABLES
    fs,                      \* the disk: [Directories \X Names -> Kinds]
    last,                    \* the last call or event and how it ended
    images,                  \* CurrentImagesProvider.images
    current,                 \* CurrentImagesProvider.current
    pc,                      \* where main() is
    source_directory,        \* ProgramOptions.source_directory
    destination_directories, \* PhotoSelectionGUI.destination_directories
    num_images,              \* value of the "Anzahl Bilder" spinbox
    progress_var,            \* value of the progress bar variable
    shown                    \* the SelectableImage widgets gridded in self.images

vars == <<fs, last, images, current, pc, source_directory,
          destination_directories, num_images, progress_var, shown>>

\* pathlib.Path.is_dir() of a directory path.
is_dir(directory) == directory \in Directories

\* What the disk holds at a file path.
Entry(f, path) ==
    IF is_dir(path.dir) THEN f[<<path.dir, path.name>>] ELSE "absent"

\* pathlib.Path.exists() and pathlib.Path.is_file() of a file path.
exists(f, path) == Entry(f, path) # "absent"
is_file(f, path) == Entry(f, path) \in Contents

get_expected_file_in_directory(file, directory) ==
    [dir |-> directory, name |-> file.name]

\* Faulty variant: the directory check is missing.
is_file_in_directory_unchecked(f, file, directory) ==
    LET expected_file == get_expected_file_in_directory(file, directory)
    IN  [outcome |-> "ok",
         ret |-> exists(f, expected_file) /\ is_file(f, expected_file)]

is_file_in_directory(f, file, directory) ==
    IF ~is_dir(directory)
    THEN [outcome |-> "ValueError", ret |-> FALSE]
    ELSE LET expected_file == get_expected_file_in_directory(file, directory)
         IN  [outcome |-> "ok",
              ret |-> exists(f, expected_file) /\ is_file(f, expected_file)]

\* shutil.copy(file, directory) with `directory` an existing directory: the
\* target is directory/file.name; a source that is no regular file, the
\* source being the target, or a target that is a directory, raise.
shutil_copy(f, file, directory) ==
    LET dst == get_expected_file_in_directory(file, directory)
    IN  IF ~is_file(f, file) \/ ~is_dir(directory)
        THEN [fs |-> f, outcome |-> "OSError", wrote |-> FALSE]
        ELSE IF dst = file \/ Entry(f, dst) = "dir"
        THEN [fs |-> f, outcome |-> "OSError", wrote |-> FALSE]
        ELSE [fs |-> [f EXCEPT ![<<dst.dir, dst.name>>] = Entry(f, file)],
              outcome |-> "ok", wrote |-> TRUE]

\* Faulty variant: reports the copy without writing the target.
copy_file_to_directory_nowrite(f, file, directory) ==
    LET present == is_file_in_directory(f, file, directory)
    IN  IF present.outcome # "ok"
        THEN [fs |-> f, outcome |-> present.outcome, wrote |-> FALSE]
        ELSE [fs |-> f, outcome |-> "ok", wrote |-> ~present.ret]

\* Faulty variant: copies without looking whether the file is already there.
copy_file_to_directory_always(f, file, directory) ==
    LET present == is_file_in_directory(f, file, directory)
    IN  IF present.outcome # "ok"
        THEN [fs |-> f, outcome |-> present.outcome, wrote |-> FALSE]
        ELSE shutil_copy(f, file, directory)

copy_file_to_directory(f, file, directory) ==
    LET present == is_file_in_directory(f, file, directory)
    IN  IF present.outcome # "ok"
        THEN [fs |-> f, outcome |-> present.outcome, wrote |-> FALSE]
        ELSE IF present.ret
        THEN [fs |-> f, outcome |-> "ok", wrote |-> FALSE]
        ELSE shutil_copy(f, file, directory)

\* Faulty variant: finds the file and leaves it where it is.
delete_file_in_directory_keep(f, file, directory) ==
    LET expected_file == get_expected_file_in_directory(file, directory)
    IN  IF ~exists(f, expected_file)
        THEN [fs |-> f, outcome |-> "ok", wrote |-> FALSE]
        ELSE IF ~is_file(f, expected_file)
        THEN [fs |-> f, outcome |-> "ValueError", wrote |-> FALSE]
        ELSE [fs |-> f, outcome |-> "ok", wrote |-> TRUE]

delete_file_in_directory(f, file, directory) ==
    LET expected_file == get_expected_file_in_directory(file, directory)
    IN  IF ~exists(f, expected_file)
        THEN [fs |-> f, outcome |-> "ok", wrote |-> FALSE]
        ELSE IF ~is_file(f, expected_file)
        THEN [fs |-> f, outcome |-> "ValueError", wrote |-> FALSE]
        ELSE [fs |-> [f EXCEPT ![<<directory, file.name>>] = "absent"],
              outcome |-> "ok", wrote |-> TRUE]

\* ------------------------------------------------ CurrentImagesProvider ----
Min(a, b) == IF a < b THEN a ELSE b
Max(a, b) == IF a > b THEN a ELSE b

\* imghdr.what(x) is not None, by the content of the file.
imghdr_what(content) == content = "jpg"

\* sorted(): the names of a set in ascending order.
RECURSIVE sorted(_)
sorted(S) ==
    IF S = {} THEN <<>>
    ELSE LET least == CHOOSE n \in S : \A m \in S : n <= m
         IN  <<least>> \o sorted(S \ {least})

\* directory.glob("*") of a path that is no directory yields nothing.
get_images_in(f, directory) ==
    LET entities == IF is_dir(directory) THEN Names ELSE {}
        files == {n \in entities : is_file(f, [dir |-> directory, name |-> n])}
        imgs == {n \in files : imghdr_what(f[<<directory, n>>])}
        sorted_images == sorted(imgs)
    IN  [i \in 1..Len(sorted_images) |->
            [dir |-> directory, name |-> sorted_images[i]]]

\* Faulty variant: the lower clamp is missing.
skim_nofloor(cur, imgs, number_of_images) ==
    Min(cur + number_of_images, Len(imgs) - 1)

skim(cur, imgs, number_of_images) ==
    Max(0, Min(cur + number_of_images, Len(imgs) - 1))

\* Python's s[lo:hi] (indexes from 0; a negative bound counts from the end).
PyBound(i, n) == IF i < 0 THEN Max(0, i + n) ELSE Min(i, n)
Slice(s, lo, hi) ==
    LET from == PyBound(lo, Len(s))
        to == PyBound(hi, Len(s))
    IN  IF from < to THEN SubSeq(s, from + 1, to) ELSE <<>>

\* Faulty variant: the window is not shifted left at the end of the images.
get_noshift(cur, imgs, number_of_images) ==
    LET n == IF Len(imgs) < number_of_images THEN Len(imgs) ELSE number_of_images
    IN  [current |-> cur, images |-> imgs, ret |-> Slice(imgs, cur, cur + n)]

\* Faulty variant: the shifted start is stored in self.current.
get_moves(cur, imgs, number_of_images) ==
    LET n == IF Len(imgs) < number_of_images THEN Len(imgs) ELSE number_of_images
        index == IF cur + n > Len(imgs) THEN Len(imgs) - n ELSE cur
    IN  [current |-> index, images |-> imgs, ret |-> Slice(imgs, index, index + n)]

\* get(): the provider's fields after the call and the list returned.
get(cur, imgs, number_of_images) ==
    LET n == IF Len(imgs) < number_of_images THEN Len(imgs) ELSE number_of_images
        index == IF cur + n > Len(imgs) THEN Len(imgs) - n ELSE cur
    IN  [current |-> cur, images |-> imgs, ret |-> Slice(imgs, index, index + n)]

\* progress(): the quotient as <<numerator, denominator>>, or the
\* ZeroDivisionError of a division by len(self.images) = 0.
progress(cur, imgs) ==
    IF Len(imgs) = 0
    THEN [outcome |-> "ZeroDivisionError", ret |-> <<0, 1>>]
    ELSE [outcome |-> "ok", ret |-> <<100 * (cur + 1), Len(imgs)>>]

\* The provider on its own: constructed on any path, then skim and get with
\* any argument.
PagerInit ==
    /\ fs \in FileSystems
    /\ \A n \in Names : fs[<<"D1", n>>] = "absent"
    /\ source_directory \in Paths
    /\ images = get_images_in(fs, source_directory)
    /\ current = 0
    /\ pc = "pager"
    /\ last = [op |-> "init", arg |-> 0, ret |-> <<>>]
    /\ destination_directories = <<>>
    /\ num_images = 1
    /\ progress_var = <<0, 1>>
    /\ shown = <<>>

PagerUnchanged ==
    UNCHANGED <<fs, pc, source_directory, destination_directories,
                num_images, progress_var, shown>>

Skim(number_of_images) ==
    /\ pc = "pager"
    /\ current' = skim(current, images, number_of_images)
    /\ last' = [op |-> "skim", arg |-> number_of_images, ret |-> <<>>]
    /\ UNCHANGED images
    /\ PagerUnchanged

Get(number_of_images) ==
    LET r == get(current, images, number_of_images)
    IN  /\ pc = "pager"
        /\ current' = r.current
        /\ images' = r.images
        /\ last' = [op |-> "get", arg |-> number_of_images, ret |-> r.ret]
        /\ PagerUnchanged

PagerNext ==
    \/ \E n \in (-MaxSkim)..MaxSkim : Skim(n)
    \/ \E k \in 0..MaxCount : Get(k)

SpecPager == PagerInit /\ [][PagerNext]_vars

\* C1: after any sequence of skim(n) calls the cursor is in [0, N-1] when
\* the image set has N > 0 images and is 0 when it is empty.
C1_CursorInRange ==
    pc = "pager" =>
        /\ Len(images) > 0 => current \in 0..(Len(images) - 1)
        /\ Len(images) = 0 => current = 0

C1_Witness ==
    /\ pc = "pager"
    /\ last.op = "skim"
    /\ last.arg < 0
    /\ images = <<>>
    /\ current = 0

\* The image list is in ascending order of the names, without repeats.
IsSorted(imgs) ==
    \A i, j \in 1..Len(imgs) : i < j => imgs[i].name < imgs[j].name

\* ret is the run of imgs that starts at index start (from 0).
IsRunAt(ret, imgs, start) ==
    /\ 0 <= start
    /\ start + Len(ret) <= Len(imgs)
    /\ \A i \in 1..Len(ret) : ret[i] = imgs[start + i]

\* C2: get(k), k >= 0, returns exactly min(k, N) paths, a contiguous run of
\* the sorted image list without repeats, between index 0 and index N-1.
C2_WindowSize ==
    (pc = "pager" /\ last.op = "get") =>
        /\ Len(last.ret) = Min(last.arg, Len(images))
        /\ IsSorted(images)
        /\ \E start \in 0..Len(images) : IsRunAt(last.ret, images, start)
        /\ \A i, j \in 1..Len(last.ret) : i # j => last.ret[i] # last.ret[j]

C2_Witness ==
    /\ pc = "pager"
    /\ last.op = "get"
    /\ Len(images) = 3
    /\ current = 2
    /\ last.arg = 2
    /\ Len(last.ret) = 2

\* C3: get(count) returns the run starting at the cursor when
\* cursor + count <= N, otherwise the last count images (all of them when
\* count > N), and changes neither the cursor nor the image list.
C3_WindowStart ==
    [][\A k \in 0..MaxCount : Get(k) =>
          /\ current' = current
          /\ images' = images
          /\ current + k <= Len(images) => IsRunAt(last'.ret, images, current)
          /\ current + k > Len(images) =>
                /\ Len(last'.ret) = Min(k, Len(images))
                /\ IsRunAt(last'.ret, images, Len(images) - Min(k, Len(images)))
          /\ Len(last'.ret) = Min(k, Len(images))]_vars

C3_Witness ==
    /\ pc = "pager"
    /\ last.op = "get"
    /\ Len(images) = 3
    /\ current = 2
    /\ last.arg = 3
    /\ last.ret = images

\* ------------------------------------------- the directory operations ----
\* `last` records a call: its operation, arguments, outcome and return
\* value, whether it changed the disk (shutil.copy wrote, unlink removed), and
\* (after) the call before it when that call had the same arguments.
NoAfter == [op |-> "none", outcome |-> "ok", wrote |-> FALSE]

NoCall == [op |-> "none", file |-> [dir |-> "S", name |-> 1], directory |-> "S",
           outcome |-> "ok", ret |-> FALSE, wrote |-> FALSE, after |-> NoAfter]

After(file, directory) ==
    IF last.file = file /\ last.directory = directory
    THEN [op |-> last.op, outcome |-> last.outcome, wrote |-> last.wrote]
    ELSE NoAfter

GuiIdle ==
    /\ images = <<>>
    /\ current = 0
    /\ pc = "library"
    /\ source_directory = "S"
    /\ destination_directories = <<>>
    /\ num_images = 1
    /\ progress_var = <<0, 1>>
    /\ shown = <<>>

GuiUnchanged ==
    UNCHANGED <<images, current, pc, source_directory,
                destination_directories, num_images, progress_var, shown>>

\* Any disk whose entries carry the names tried; the file handed to the
\* operations lives in S (D1 is like S, and a file in no directory is a path
\* in S that holds nothing).  The regular files of S hold "jpg" and those of
\* D1 "txt" at first, which tells a file written by a copy from one that was
\* there before.
DirFiles == [dir : {"S"}, name : DirNames]

DirInit ==
    /\ fs \in FileSystems
    /\ \A d \in Directories, n \in Names \ DirNames : fs[<<d, n>>] = "absent"
    /\ \A n \in DirNames : fs[<<"S", n>>] # "txt" /\ fs[<<"D1", n>>] # "jpg"
    /\ last = NoCall
    /\ GuiIdle

CallIsFileInDirectory(file, directory) ==
    LET r == is_file_in_directory(fs, file, directory)
    IN  /\ pc = "library"
        /\ last' = [op |-> "exists", file |-> file, directory |-> directory,
                    outcome |-> r.outcome, ret |-> r.ret, wrote |-> FALSE,
                    after |-> After(file, directory)]
        /\ UNCHANGED fs
        /\ GuiUnchanged

CallCopyFileToDirectory(file, directory) ==
    LET r == copy_file_to_directory(fs, file, directory)
    IN  /\ pc = "library"
        /\ fs' = r.fs
        /\ last' = [op |-> "copy", file |-> file, directory |-> directory,
                    outcome |-> r.outcome, ret |-> FALSE, wrote |-> r.wrote,
                    after |-> After(file, directory)]
        /\ GuiUnchanged

CallDeleteFileInDirectory(file, directory) ==
    LET r == delete_file_in_directory(fs, file, directory)
    IN  /\ pc = "library"
        /\ fs' = r.fs
        /\ last' = [op |-> "delete", file |-> file, directory |-> directory,
                    outcome |-> r.outcome, ret |-> FALSE, wrote |-> r.wrote,
                    after |-> After(file, directory)]
        /\ GuiUnchanged

DirNext ==
    \E file \in DirFiles, directory \in Paths :
        \/ CallIsFileInDirectory(file, directory)
        \/ CallCopyFileToDirectory(file, directory)
        \/ CallDeleteFileInDirectory(file, directory)

SpecDir == DirInit /\ [][DirNext]_vars

\* C4 as stated: for every directory D and regular file F, in every state of
\* the disk, copy_file_to_directory(F, D) followed by
\* is_file_in_directory(F, D) returns true.
C4_CopyThenExists ==
    (/\ last.op = "exists"
     /\ last.after.op = "copy"
     /\ is_dir(last.directory)
     /\ is_file(fs, last.file)) => last.ret = TRUE

\* C4 amended: for every directory D and regular file F, when D holds
\* nothing or a regular file under the name of F, copy returns and the
\* following is_file_in_directory returns true; when D holds an entry of that
\* name that is no regular file, copy raises and is_file_in_directory
\* returns false.
C4_CopyThenExistsUnlessNotRegular ==
    (/\ last.op = "exists"
     /\ last.after.op = "copy"
     /\ is_dir(last.directory)
     /\ is_file(fs, last.file)) =>
        IF Entry(fs, get_expected_file_in_directory(last.file, last.directory)) = "dir"
        THEN last.after.outcome = "OSError" /\ last.outcome = "ok" /\ last.ret = FALSE
        ELSE last.after.outcome = "ok" /\ last.outcome = "ok" /\ last.ret = TRUE

C4_Witness ==
    /\ last.op = "exists"
    /\ last.after = [op |-> "copy", outcome |-> "ok", wrote |-> TRUE]
    /\ last.directory = "D1"
    /\ last.ret = TRUE

\* C5: for every directory D and file F, is_file_in_directory(F, D) right
\* after delete_file_in_directory(F, D) returns false, and the delete changes
\* no entry but D/name(F), which it removes or leaves as it is.
C5_DeleteThenExists ==
    [][LET file == last'.file
           directory == last'.directory
       IN  /\ (last'.op = "delete" /\ CallDeleteFileInDirectory(file, directory)) =>
                /\ \A e \in DOMAIN fs :
                      e # <<directory, file.name>> => fs'[e] = fs[e]
                /\ is_dir(directory) =>
                      fs'[<<directory, file.name>>]
                          \in {fs[<<directory, file.name>>], "absent"}
           /\ (/\ last.op = "delete"
               /\ last.file = file
               /\ last.directory = directory
               /\ is_dir(directory)
               /\ CallIsFileInDirectory(file, directory)) =>
                (last'.outcome = "ok" /\ last'.ret = FALSE)]_vars

C5_Witness ==
    /\ last.op = "exists"
    /\ last.after = [op |-> "delete", outcome |-> "ok", wrote |-> TRUE]
    /\ last.ret = FALSE
    /\ \E n \in DirNames :
          n # last.file.name /\ is_file(fs, [dir |-> last.directory, name |-> n])

\* C6: a second copy_file_to_directory(F, D) right after a first one that
\* returned does not raise, does not copy (the file in D is not written
\* again), and leaves the disk and the presence of F in D as they were.
C6_CopyIdempotent ==
    [][LET file == last'.file
           directory == last'.directory
       IN  (/\ last.op = "copy"
            /\ last.file = file
            /\ last.directory = directory
            /\ last.outcome = "ok"
            /\ CallCopyFileToDirectory(file, directory)) =>
                /\ last'.outcome = "ok"
                /\ last'.wrote = FALSE
                /\ fs' = fs
                /\ is_file_in_directory(fs', file, directory).ret = TRUE]_vars

C6_Witness ==
    /\ last.op = "copy"
    /\ last.after = [op |-> "copy", outcome |-> "ok", wrote |-> TRUE]
    /\ last.outcome = "ok"
    /\ last.wrote = FALSE

\* C8 as stated: each of the three operations, given a path that is no
\* existing directory, raises.
C8_AllRaise ==
    (last.op \in {"exists", "copy", "delete"} /\ ~is_dir(last.directory)) =>
        last.outcome = "ValueError"

\* C8 amended: given a path that is no existing directory,
\* is_file_in_directory and copy_file_to_directory raise ValueError and
\* delete_file_in_directory returns without raising; all three leave the disk
\* unchanged.
C8_ExistsAndCopyRaise ==
    [][LET file == last'.file
           directory == last'.directory
       IN  ~is_dir(directory) =>
             /\ (\/ CallIsFileInDirectory(file, directory)
                 \/ CallCopyFileToDirectory(file, directory)) =>
                   (last'.outcome = "ValueError" /\ fs' = fs)
             /\ CallDeleteFileInDirectory(file, directory) =>
                   (last'.outcome = "ok" /\ fs' = fs)]_vars

C8_Witness ==
    /\ last.op = "copy"
    /\ last.directory = "X"
    /\ last.outcome = "ValueError"
    /\ \E n \in DirNames : is_file(fs, [dir |-> "S", name |-> n])

\* ---------------------------------------------------- PhotoSelectionGUI ----
\* A destination column of a SelectableImage: the FileCopyUI with the text of
\* its label ("schon" or "noch nicht") and the state of its two buttons.
\* SelectableImage.__init__ up to self.draw(): every column gets its label
\* from the disk and two buttons in the default (enabled) state.
InitialColumns(f, file, destinations) ==
    [c \in 1..Len(destinations) |->
        [is_copied |-> is_file_in_directory(f, file, destinations[c]).ret,
         copy_button |-> TRUE,
         delete_button |-> TRUE]]

\* FileCopyUI.update
update(f, file, directory) ==
    LET is_copied == is_file_in_directory(f, file, directory).ret
    IN  [is_copied |-> is_copied,
         copy_button |-> ~is_copied,
         delete_button |-> is_copied]

\* self.file_uis is a dict keyed by the destination: of the columns of one
\* directory it keeps the last.
InFileUis(destinations, c) ==
    \A d \in (c + 1)..Len(destinations) : destinations[d] # destinations[c]

\* SelectableImage.draw: PIL.Image.open raises unless the file is an image;
\* then every FileCopyUI of self.file_uis is updated.
draw(f, file, destinations, columns) ==
    IF ~(is_file(f, file) /\ imghdr_what(Entry(f, file)))
    THEN [outcome |-> "OSError", columns |-> columns]
    ELSE [outcome |-> "ok",
          columns |-> [c \in 1..Len(destinations) |->
                          IF InFileUis(destinations, c)
                          THEN update(f, file, destinations[c])
                          ELSE columns[c]]]

\* SelectableImage(parent, file, destination_directories, size)
SelectableImage(f, file, destinations) ==
    LET drawn == draw(f, file, destinations, InitialColumns(f, file, destinations))
    IN  [outcome |-> drawn.outcome,
         widget |-> [file |-> file, columns |-> drawn.columns]]

\* display_images: the old widgets are destroyed, then one SelectableImage
\* per file is built and gridded, up to the first that raises.
RECURSIVE display_images(_, _, _)
display_images(f, image_files, destinations) ==
    IF image_files = <<>>
    THEN [outcome |-> "ok", shown |-> <<>>]
    ELSE LET image == SelectableImage(f, Head(image_files), destinations)
         IN  IF image.outcome # "ok"
             THEN [outcome |-> image.outcome, shown |-> <<>>]
             ELSE LET rest == display_images(f, Tail(image_files), destinations)
                  IN  [outcome |-> rest.outcome,
                       shown |-> <<image.widget>> \o rest.shown]

\* display_current_images: get, display_images, then progress.set(progress()).
display_current_images(f, cur, imgs, count, destinations, old_progress) ==
    LET displayed == display_images(f, get(cur, imgs, count).ret, destinations)
        percent == progress(cur, imgs)
    IN  IF displayed.outcome # "ok"
        THEN [outcome |-> displayed.outcome, shown |-> displayed.shown,
              progress |-> old_progress]
        ELSE [outcome |-> percent.outcome, shown |-> displayed.shown,
              progress |-> IF percent.outcome = "ok" THEN percent.ret
                           ELSE old_progress]

\* The directory check of PhotoSelectionGUI.__init__.
AllDirectories(folders) ==
    \A i \in 1..Len(folders) : is_dir(folders[i])

DestinationLists ==
    UNION {[1..n -> Paths] : n \in 1..MaxDests}

\* The value of the spinbox "Anzahl Bilder" (from_=1).
SpinboxFrom == 1

GuiEvent(op, outcome, image, column) ==
    [op |-> op, outcome |-> outcome, image |-> image, column |-> column]

Init ==
    /\ fs \in FileSystems
    /\ \A d \in Directories, n \in Names \ DirNames : fs[<<d, n>>] = "absent"
    /\ pc = "main"
    /\ last = GuiEvent("none", "ok", 0, 0)
    /\ images = <<>>
    /\ current = 0
    /\ source_directory = "S"
    /\ destination_directories = <<>>
    /\ num_images = SpinboxFrom
    /\ progress_var = <<0, 1>>
    /\ shown = <<>>

\* main(): PhotoSelectionGUI(root, source, destinations) raises for a folder
\* that is no directory; otherwise app.display_current_images() runs, and an
\* exception it raises ends the program before root.mainloop().
Startup(source, destinations) ==
    /\ pc = "main"
    /\ source_directory' = source
    /\ destination_directories' = destinations
    /\ IF ~AllDirectories(<<source>> \o destinations)
       THEN /\ pc' = "rejected"
            /\ last' = GuiEvent("startup", "ValueError", 0, 0)
            /\ UNCHANGED <<images, current, progress_var, shown>>
       ELSE LET imgs == get_images_in(fs, source)
                r == display_current_images(fs, 0, imgs, num_images,
                                            destinations, progress_var)
            IN  /\ images' = imgs
                /\ current' = 0
                /\ shown' = r.shown
                /\ progress_var' = r.progress
                /\ pc' = IF r.outcome = "ok" THEN "mainloop" ELSE "crashed"
                /\ last' = GuiEvent("startup", r.outcome, 0, 0)
    /\ UNCHANGED <<fs, num_images>>

\* A handler of the main loop that ends in display_current_images; Tk reports
\* an exception of a handler and the loop goes on.
Redisplay(op, cur, count) ==
    LET r == display_current_images(fs, cur, images, count,
                                    destination_directories, progress_var)
    IN  /\ pc = "mainloop"
        /\ current' = cur
        /\ num_images' = count
        /\ shown' = r.shown
        /\ progress_var' = r.progress
        /\ last' = GuiEvent(op, r.outcome, 0, 0)
        /\ UNCHANGED <<fs, images, pc, source_directory, destination_directories>>

next_image == Redisplay("next", skim(current, images, 1), num_images)

previous_image == Redisplay("previous", skim(current, images, -1), num_images)

\* The trace on self.num_images, for a value typed or stepped to.
NumImagesWritten(count) == Redisplay("num_images", current, count)

\* The trace on self.size_images.
SizeImagesWritten == Redisplay("size_images", current, num_images)

\* FileAction.__call__ of the button of column c of the i-th widget: the
\* action, then the callbacks (the update of the FileCopyUI of that column);
\* an action that raises runs no callback.
FileAction(op, i, c, r) ==
    LET file == shown[i].file
        directory == destination_directories[c]
    IN  /\ fs' = r.fs
        /\ shown' = IF r.outcome = "ok"
                    THEN [shown EXCEPT ![i].columns[c] = update(r.fs, file, directory)]
                    ELSE shown
        /\ last' = GuiEvent(op, r.outcome, i, c)
        /\ UNCHANGED <<images, current, pc, source_directory,
                       destination_directories, num_images, progress_var>>

CopyButton(i, c) ==
    /\ pc = "mainloop"
    /\ i \in 1..Len(shown)
    /\ c \in 1..Len(destination_directories)
    /\ shown[i].columns[c].copy_button
    /\ FileAction("copy", i, c,
                  copy_file_to_directory(fs, shown[i].file, destination_directories[c]))

DeleteButton(i, c) ==
    /\ pc = "mainloop"
    /\ i \in 1..Len(shown)
    /\ c \in 1..Len(destination_directories)
    /\ shown[i].columns[c].delete_button
    /\ FileAction("delete", i, c,
                  delete_file_in_directory(fs, shown[i].file, destination_directories[c]))

Next ==
    \/ \E source \in Paths, destinations \in DestinationLists :
          Startup(source, destinations)
    \/ next_image
    \/ previous_image
    \/ \E count \in SpinboxFrom..MaxCount : NumImagesWritten(count)
    \/ SizeImagesWritten
    \/ \E i \in 1..MaxCount, c \in 1..MaxDests : CopyButton(i, c)
    \/ \E i \in 1..MaxCount, c \in 1..MaxDests : DeleteButton(i, c)

Spec == Init /\ [][Next]_vars

\* The disk as the columns of the widgets shown should tell it.
ColumnShowsDisk(i, c) ==
    LET present == is_file(fs, get_expected_file_in_directory(
                                   shown[i].file, destination_directories[c]))
        column == shown[i].columns[c]
    IN  /\ column.is_copied = present
        /\ column.copy_button = ~present
        /\ column.delete_button = present

\* C7: with an empty image set progress() has a defined outcome and the
\* display of the current images at startup does not crash the program.
C7_EmptySetNoCrash ==
    (pc \in {"mainloop", "crashed"} /\ images = <<>>) =>
        (pc # "crashed" /\ last.outcome # "ZeroDivisionError")

\* C9: after a copy or delete button action that completed without error,
\* every destination column of every image shown tells the disk: the label
\* says present iff a regular file of that name is in the destination, the
\* copy button is enabled iff it is absent, the delete button iff it is
\* present.
C9_ColumnsShowDisk ==
    (pc = "mainloop" /\ last.op \in {"copy", "delete"} /\ last.outcome = "ok") =>
        \A i \in 1..Len(shown), c \in 1..Len(destination_directories) :
            ColumnShowsDisk(i, c)

\* C10: in a session every path of the image set names a regular file of the
\* source folder with the content it had at startup.
C10_SourceImagesKept ==
    pc = "mainloop" =>
        \A i \in 1..Len(images) :
            /\ images[i].dir = source_directory
            /\ is_file(fs, images[i])
            /\ imghdr_what(Entry(fs, images[i]))

====
